---- MODULE Spec2Model ----
(***************************************************************************)
(* Model of the rust-opus diagnostic pipeline (src/main.rs and             *)
(* src/network_simulator.rs).                                              *)
(*                                                                         *)
(* Two threads share Arc<Mutex<Option<WavWriter>>>:                        *)
(*   - the audio callback thread, which runs the render closure and then   *)
(*     write_input_data for every device buffer;                           *)
(*   - the main thread, which sleeps, drops the stream, locks the mutex,   *)
(*     takes the writer out of the Option and finalizes it.                *)
(*                                                                         *)
(* bin/microphone-test.rs (same sink, callback without the codec) and       *)
(* bin/stream-test.rs (a keyboard thread and an output callback sharing an *)
(* atomic frequency) are modelled as further values of `bin`, each with    *)
(* its own specification.                                                  *)
(*                                                                         *)
(* The F32 instantiation (T = U = f32) is modelled, so from_sample is the  *)
(* identity on sample values.  Samples are naturals: the source buffer is  *)
(* the ramp 1..srcLen (every source sample is distinct and non-zero) and   *)
(* 0 is silence / zero padding.                                            *)
(*                                                                         *)
(* The Opus codec, the random source and cpal's stream are libraries       *)
(* outside the repository: their results (encode/decode Ok or Err, the     *)
(* decoded length, the random draws, the device buffer length) are         *)
(* nondeterministic inputs of the actions.  Dropping the stream stops new  *)
(* callbacks; a callback already in flight runs to its end.                *)
(***************************************************************************)
EXTENDS Naturals, Sequences, FiniteSets

\* ---------------------------------------------------------------- bounds
\* FRAME_SIZE is 960 in main.rs:173 (and the literal 960 of the decode
\* buffer, main.rs:185); it is scaled down here to keep buffers small.
FRAME_SIZE == 4
\* Device buffers hold between 1 and MaxBufPairs interleaved stereo pairs.
MaxBufPairs == 3
\* Number of device callbacks explored.
MaxCallbacks == 2
\* Length of the pre-loaded source buffer is at most MaxSrc.
MaxSrc == 6
\* random::<f32>() is uniform in [0,1): draw d stands for d / RandScale,
\* and packet_loss_probability p stands for p / RandScale, p in 0..RandScale.
RandScale == 2
\* latency_us is at most MaxLatency, jitter_us at most MaxJitter.
MaxLatency == 1
MaxJitter == 2
\* random::<u64>() is drawn from 0..MaxRand.
MaxRand == 2
\* stream-test: 'w' presses are explored while they keep the frequency at or
\* below MaxFreq Hz.
MaxFreq == 450
\* stream-test: sample_rate is 48000.0 in stream-test.rs:111; it is scaled
\* down here so that SAMPLE_CLOCK wraps within a few callbacks.
SAMPLE_RATE == 2

VARIABLES
    bin,             \* the binary that runs: "main" | "microphone-test"
    loss,            \* NetworkSimulator.packet_loss_probability (x RandScale)
    latency_us,      \* NetworkSimulator.latency_us
    jitter_us,       \* NetworkSimulator.jitter_us
    srcLen,          \* samples_clone.len()
    sample_idx,      \* render closure's read index (0-based count consumed)
    stream,          \* "playing" | "dropped"
    mutex,           \* holder of the Mutex: "free" | "cb" | "main"
    poisoned,        \* Mutex poison flag
    slot,            \* Option<WavWriter> inside the mutex: "Some" | "None"
    sink_finalized,  \* WavWriter::finalize has run
    sink_samples,    \* number of write_sample calls made on the writer
    cb_pc,           \* position of the audio callback thread
    main_pc,         \* position of the main thread
    data,            \* the device buffer of the callback in flight
    frame,           \* the frame built by the callback in flight
    delay,           \* sleep duration chosen for the packet in flight
    decoded_len,     \* decoded_len of the packet in flight
    callbacks,       \* number of callbacks started
    cb_outcome,      \* how the last finished callback ended
    cb_ret,          \* value the last finished write_input_data returned
    pkts,            \* history: one record per encoded packet
    frames,          \* history: frames handed to the encoder
    fed,             \* history: interleaved samples handed to the framing code
    codec_failures,  \* history: number of Err results from the codec
    rendered,        \* history: every sample the render closure has output
    acquired,        \* history: callbacks that took the guard of an open sink
    events,          \* history: encode, drop, deliver, decode, write per packet
    frequency,       \* stream-test: the AtomicU32 (bits of the f32 frequency)
    kb_pc,           \* stream-test: position of the keyboard thread
    kb_current,      \* stream-test: handle_keyboard_input's local `current`
    current_freq,    \* stream-test: write_sine's local current_freq
    sample_clock,    \* stream-test: static mut SAMPLE_CLOCK
    stored,          \* history: every bit pattern stored into frequency
    expected         \* history: frequency after the keys read so far, in order

vars == << bin, loss, latency_us, jitter_us, srcLen, sample_idx, stream, mutex,
           poisoned, slot, sink_finalized, sink_samples, cb_pc, main_pc,
           data, frame, delay, decoded_len, callbacks, cb_outcome, cb_ret,
           pkts, frames, fed, codec_failures, rendered, acquired, events,
           frequency, kb_pc, kb_current, current_freq, sample_clock, stored,
           expected >>

cfgVars == << bin, loss, latency_us, jitter_us, srcLen >>
mainVars == << main_pc, stream >>
sinkVars == << slot, sink_finalized, sink_samples >>
histVars == << pkts, frames, fed, codec_failures >>
ghostVars == << rendered, acquired, events >>
sineVars == << frequency, kb_pc, kb_current, current_freq, sample_clock,
               stored, expected >>

\* Encoder::new(48000, opus::Channels::Stereo, ..), WavSpec channels: 2.
CHANNELS == 2

\* ------------------------------------------------------------ pure helpers
Min(a, b) == IF a < b THEN a ELSE b

\* Device buffer lengths: interleaved stereo, so always even and non-empty.
BufLens == { 2 * k : k \in 1..MaxBufPairs }

\* Configurations explored: no loss, some loss, total loss; no latency and
\* the largest; no jitter, the smallest and the largest; an empty source, a
\* short one and the longest.
Losses == { 0, 1, RandScale }
Latencies == { 0, MaxLatency }
Jitters == { 0, 1, MaxJitter }
SrcLens == { 0, 2, MaxSrc }

\* decode_float returns the number of samples decoded per channel, at most
\* the capacity of the output buffer divided by the two channels.
DecodedLens == 0..(FRAME_SIZE \div 2)

\* The pre-loaded source: samples_clone[i-1] = i.
samples(i) == i

\* Mutant: the read index starts from zero in every callback.
RenderIdx_Reset(idx, len, n) == 0

\* Mutant: the read index is not advanced.
RenderIdx_Stuck(idx, len, n) == idx

\* Render closure: for each slot of the buffer, the next source sample while
\* sample_idx < len, silence afterwards.
RenderFill(idx, len, n) ==
    [ i \in 1..n |-> IF idx + (i - 1) < len THEN samples(idx + i) ELSE 0 ]

RenderIdx(idx, len, n) == Min(idx + n, len)

\* f32::from_sample on an f32 input.
ToFloat(s) == s

\* De-interleave: chunks(2), chunk[0] to the left, chunk[1] to the right,
\* then left followed by right.
Deinterleave(buf) ==
    LET f == [ i \in 1..Len(buf) |-> ToFloat(buf[i]) ]
        half == Len(f) \div 2
        left_channel == [ i \in 1..half |-> f[2 * i - 1] ]
        right_channel == [ i \in 1..half |-> f[2 * i] ]
    IN  left_channel \o right_channel

\* frame = vec![0.0; FRAME_SIZE]; frame[..copy_size] = deinterleaved[..copy_size]
MakeFrame(d) ==
    LET copy_size == Min(Len(d), FRAME_SIZE)
    IN  [ i \in 1..FRAME_SIZE |-> IF i <= copy_size THEN d[i] ELSE 0 ]

\* Mutant: the lock is taken without looking at its state.
TryLockOk_Always(m, p) == TRUE

\* try_lock succeeds only on a free, unpoisoned mutex.
TryLockOk(m, p) == m = "free" /\ ~p

\* Mutant: the Option is not inspected.
HasWriter_Unchecked(s) == TRUE

\* guard.as_mut() is Some.
HasWriter(s) == s = "Some"

\* Mutant: the comparison is inverted.
Dropped_Inverted(draw, p) == draw > p

\* random::<f32>() < packet_loss_probability
Dropped(draw, p) == draw < p

\* The callback returns or unwinds: its buffer and its locals are gone.
DropLocals ==
    /\ data' = << >>
    /\ frame' = << >>
    /\ delay' = 0
    /\ decoded_len' = 0

\* ------------------------------------------------------------------- Init
Init ==
    /\ bin = "main"
    /\ loss \in Losses
    /\ latency_us \in Latencies
    /\ jitter_us \in Jitters
    /\ srcLen \in SrcLens
    /\ sample_idx = 0
    /\ stream = "playing"
    /\ mutex = "free"
    /\ poisoned = FALSE
    /\ slot = "Some"
    /\ sink_finalized = FALSE
    /\ sink_samples = 0
    /\ cb_pc = "idle"
    /\ main_pc = "sleep"
    /\ data = << >>
    /\ frame = << >>
    /\ delay = 0
    /\ decoded_len = 0
    /\ callbacks = 0
    /\ cb_outcome = "none"
    /\ cb_ret = "none"
    /\ pkts = << >>
    /\ frames = << >>
    /\ fed = << >>
    /\ codec_failures = 0
    /\ rendered = << >>
    /\ acquired = 0
    /\ events = << >>
    /\ frequency = 0
    /\ kb_pc = "none"
    /\ kb_current = 0
    /\ current_freq = 0
    /\ sample_clock = 0
    /\ stored = {}
    /\ expected = 0

\* ------------------------------------------------- audio callback thread
\* The render closure fills the device buffer, then calls write_input_data.
CbRender(n) ==
    /\ bin = "main"
    /\ cb_pc = "idle"
    /\ stream = "playing"
    /\ callbacks < MaxCallbacks
    /\ data' = RenderFill(sample_idx, srcLen, n)
    /\ sample_idx' = RenderIdx(sample_idx, srcLen, n)
    /\ callbacks' = callbacks + 1
    /\ cb_pc' = "try_lock"
    /\ cb_outcome' = "none"
    /\ cb_ret' = "none"
    /\ rendered' = rendered \o RenderFill(sample_idx, srcLen, n)
    /\ UNCHANGED << cfgVars, mainVars, mutex, poisoned, sinkVars, frame,
                    delay, decoded_len, histVars >>
    /\ UNCHANGED << acquired, events >>
    /\ UNCHANGED sineVars

\* writer.try_lock() is Err: the whole body is skipped.
CbTryLockFail ==
    /\ cb_pc = "try_lock"
    /\ ~TryLockOk(mutex, poisoned)
    /\ cb_pc' = "idle"
    /\ cb_outcome' = "skipped_locked"
    /\ cb_ret' = "unit"
    /\ DropLocals
    /\ UNCHANGED << cfgVars, mainVars, mutex, poisoned, sinkVars, sample_idx,
                    callbacks, histVars >>
    /\ UNCHANGED ghostVars
    /\ UNCHANGED sineVars

\* try_lock is Ok but the Option is None: the guard is dropped at once.
CbTryLockNone ==
    /\ cb_pc = "try_lock"
    /\ TryLockOk(mutex, poisoned)
    /\ ~HasWriter(slot)
    /\ cb_pc' = "idle"
    /\ cb_outcome' = "skipped_closed"
    /\ cb_ret' = "unit"
    /\ DropLocals
    /\ UNCHANGED << cfgVars, mainVars, mutex, poisoned, sinkVars, sample_idx,
                    callbacks, histVars >>
    /\ UNCHANGED ghostVars
    /\ UNCHANGED sineVars

\* try_lock is Ok and the writer is present: the guard is held from here on.
CbTryLockSome ==
    /\ bin = "main"
    /\ cb_pc = "try_lock"
    /\ TryLockOk(mutex, poisoned)
    /\ HasWriter(slot)
    /\ mutex' = "cb"
    /\ cb_pc' = "frame"
    /\ acquired' = acquired + 1
    /\ UNCHANGED << cfgVars, mainVars, poisoned, sinkVars, sample_idx, data,
                    frame, delay, decoded_len, callbacks, cb_outcome, cb_ret,
                    histVars >>
    /\ UNCHANGED << rendered, events >>
    /\ UNCHANGED sineVars

\* Mutant: the samples are de-interleaved in place, in the device buffer.
CbFrame_InPlace ==
    /\ cb_pc = "frame"
    /\ frame' = MakeFrame(Deinterleave(data))
    /\ data' = Deinterleave(data)
    /\ fed' = fed \o data
    /\ cb_pc' = "encode"
    /\ UNCHANGED << cfgVars, mainVars, mutex, poisoned, sinkVars, sample_idx,
                    delay, decoded_len, callbacks, cb_outcome, cb_ret,
                    pkts, frames, codec_failures >>
    /\ UNCHANGED ghostVars
    /\ UNCHANGED sineVars

\* Conversion, de-interleaving and the construction of the codec frame.
CbFrame ==
    /\ cb_pc = "frame"
    /\ frame' = MakeFrame(Deinterleave(data))
    /\ fed' = fed \o data
    /\ cb_pc' = "encode"
    /\ UNCHANGED << cfgVars, mainVars, mutex, poisoned, sinkVars, sample_idx,
                    data, delay, decoded_len, callbacks, cb_outcome, cb_ret,
                    pkts, frames, codec_failures >>
    /\ UNCHANGED ghostVars
    /\ UNCHANGED sineVars

\* encoder.encode_float(..) is Ok.
CbEncodeOk ==
    /\ cb_pc = "encode"
    /\ frames' = Append(frames, frame)
    /\ pkts' = Append(pkts, [fate |-> "pending", decodes |-> 0, writes |-> 0,
                              dlen |-> 0])
    /\ cb_pc' = "network"
    /\ events' = Append(events, [op |-> "encode", pkt |-> Len(pkts) + 1])
    /\ UNCHANGED << cfgVars, mainVars, mutex, poisoned, sinkVars, sample_idx,
                    data, frame, delay, decoded_len, callbacks, cb_outcome,
                    cb_ret, fed, codec_failures >>
    /\ UNCHANGED << rendered, acquired >>
    /\ UNCHANGED sineVars

\* encoder.encode_float(..) is Err: expect("Failed to encode") panics with
\* the guard held.
CbEncodeFail ==
    /\ cb_pc = "encode"
    /\ frames' = Append(frames, frame)
    /\ codec_failures' = codec_failures + 1
    /\ cb_pc' = "panicked"
    /\ mutex' = "free"
    /\ poisoned' = TRUE
    /\ DropLocals
    /\ UNCHANGED << cfgVars, mainVars, sinkVars, sample_idx, callbacks,
                    cb_outcome, cb_ret, pkts, fed >>
    /\ UNCHANGED ghostVars
    /\ UNCHANGED sineVars

\* Mutant: the None result is not honoured and the lost packet is decoded.
CbNetDrop_Decoded(draw) ==
    /\ cb_pc = "network"
    /\ Dropped(draw, loss)
    /\ pkts' = [pkts EXCEPT ![Len(pkts)].fate = "dropped"]
    /\ cb_pc' = "decode"
    /\ events' = Append(events, [op |-> "drop", pkt |-> Len(pkts)])
    /\ UNCHANGED << cfgVars, mainVars, mutex, poisoned, sinkVars, sample_idx,
                    data, frame, delay, decoded_len, callbacks, cb_outcome,
                    cb_ret, frames, fed, codec_failures >>
    /\ UNCHANGED << rendered, acquired >>
    /\ UNCHANGED sineVars

\* simulate_network returns None: the packet is lost, the guard is released.
CbNetDrop(draw) ==
    /\ cb_pc = "network"
    /\ Dropped(draw, loss)
    /\ pkts' = [pkts EXCEPT ![Len(pkts)].fate = "dropped"]
    /\ mutex' = "free"
    /\ cb_pc' = "idle"
    /\ cb_outcome' = "dropped"
    /\ cb_ret' = "unit"
    /\ DropLocals
    /\ events' = Append(events, [op |-> "drop", pkt |-> Len(pkts)])
    /\ UNCHANGED << cfgVars, mainVars, poisoned, sinkVars, sample_idx,
                    callbacks, frames, fed, codec_failures >>
    /\ UNCHANGED << rendered, acquired >>
    /\ UNCHANGED sineVars

\* random::<u64>() % self.jitter_us with jitter_us = 0: remainder by zero
\* panics, with the guard held.
CbNetJitterPanic(draw) ==
    /\ cb_pc = "network"
    /\ ~Dropped(draw, loss)
    /\ jitter_us = 0
    /\ pkts' = [pkts EXCEPT ![Len(pkts)].fate = "delay_failed"]
    /\ cb_pc' = "panicked"
    /\ mutex' = "free"
    /\ poisoned' = TRUE
    /\ DropLocals
    /\ UNCHANGED << cfgVars, mainVars, sinkVars, sample_idx, callbacks,
                    cb_outcome, cb_ret, frames, fed, codec_failures >>
    /\ UNCHANGED ghostVars
    /\ UNCHANGED sineVars

\* thread::sleep(latency_us + jitter) on the callback thread, guard held.
CbNetSleep(draw, r) ==
    /\ cb_pc = "network"
    /\ ~Dropped(draw, loss)
    /\ jitter_us # 0
    /\ delay' = latency_us + (r % jitter_us)
    /\ cb_pc' = "sleeping"
    /\ UNCHANGED << cfgVars, mainVars, mutex, poisoned, sinkVars, sample_idx,
                    data, frame, decoded_len, callbacks, cb_outcome, cb_ret,
                    histVars >>
    /\ UNCHANGED ghostVars
    /\ UNCHANGED sineVars

\* The sleep ends and simulate_network returns Some(packet).
CbNetWake ==
    /\ cb_pc = "sleeping"
    /\ pkts' = [pkts EXCEPT ![Len(pkts)].fate = "delivered"]
    /\ cb_pc' = "decode"
    /\ events' = Append(events, [op |-> "deliver", pkt |-> Len(pkts)])
    /\ UNCHANGED << cfgVars, mainVars, mutex, poisoned, sinkVars, sample_idx,
                    data, frame, delay, decoded_len, callbacks, cb_outcome,
                    cb_ret, frames, fed, codec_failures >>
    /\ UNCHANGED << rendered, acquired >>
    /\ UNCHANGED sineVars

\* decoder.decode_float(..) is Ok(n).
CbDecodeOk(n) ==
    /\ cb_pc = "decode"
    /\ decoded_len' = n
    /\ pkts' = [pkts EXCEPT ![Len(pkts)].decodes = @ + 1,
                            ![Len(pkts)].dlen = n]
    /\ cb_pc' = "write"
    /\ events' = Append(events, [op |-> "decode", pkt |-> Len(pkts)])
    /\ UNCHANGED << cfgVars, mainVars, mutex, poisoned, sinkVars, sample_idx,
                    data, frame, delay, callbacks, cb_outcome, cb_ret, frames,
                    fed, codec_failures >>
    /\ UNCHANGED << rendered, acquired >>
    /\ UNCHANGED sineVars

\* decoder.decode_float(..) is Err: expect("Failed to decode") panics with
\* the guard held.
CbDecodeFail ==
    /\ cb_pc = "decode"
    /\ pkts' = [pkts EXCEPT ![Len(pkts)].decodes = @ + 1]
    /\ codec_failures' = codec_failures + 1
    /\ cb_pc' = "panicked"
    /\ mutex' = "free"
    /\ poisoned' = TRUE
    /\ DropLocals
    /\ events' = Append(events, [op |-> "decode", pkt |-> Len(pkts)])
    /\ UNCHANGED << cfgVars, mainVars, sinkVars, sample_idx, callbacks,
                    cb_outcome, cb_ret, frames, fed >>
    /\ UNCHANGED << rendered, acquired >>
    /\ UNCHANGED sineVars

\* Mutant: each decoded sample is written to one channel only.
CbWrite_OneChannel ==
    /\ cb_pc = "write"
    /\ sink_samples' = sink_samples + decoded_len
    /\ pkts' = [pkts EXCEPT ![Len(pkts)].writes = @ + 1]
    /\ mutex' = "free"
    /\ cb_pc' = "idle"
    /\ cb_outcome' = "written"
    /\ cb_ret' = "unit"
    /\ DropLocals
    /\ events' = Append(events, [op |-> "write", pkt |-> Len(pkts)])
    /\ UNCHANGED << cfgVars, mainVars, poisoned, slot, sink_finalized,
                    sample_idx, callbacks, frames, fed, codec_failures >>
    /\ UNCHANGED << rendered, acquired >>
    /\ UNCHANGED sineVars

\* Each of decoded[..decoded_len] is written to the left and to the right
\* channel; then the guard goes out of scope and the function returns.
CbWrite ==
    /\ cb_pc = "write"
    /\ sink_samples' = sink_samples + 2 * decoded_len
    /\ pkts' = [pkts EXCEPT ![Len(pkts)].writes = @ + 1]
    /\ mutex' = "free"
    /\ cb_pc' = "idle"
    /\ cb_outcome' = "written"
    /\ cb_ret' = "unit"
    /\ DropLocals
    /\ events' = Append(events, [op |-> "write", pkt |-> Len(pkts)])
    /\ UNCHANGED << cfgVars, mainVars, poisoned, slot, sink_finalized,
                    sample_idx, callbacks, frames, fed, codec_failures >>
    /\ UNCHANGED << rendered, acquired >>
    /\ UNCHANGED sineVars

\* ------------------------------------------------------------ main thread
\* The sleep ends and drop(stream) runs: no new callback starts.
MainDropStream ==
    /\ main_pc = "sleep"
    /\ stream' = "dropped"
    /\ main_pc' = "lock"
    /\ UNCHANGED << cfgVars, sample_idx, mutex, poisoned, sinkVars, cb_pc,
                    data, frame, delay, decoded_len, callbacks, cb_outcome,
                    cb_ret, histVars >>
    /\ UNCHANGED ghostVars
    /\ UNCHANGED sineVars

\* writer.lock() blocks until the mutex is free; unwrap() of an unpoisoned
\* lock gives the guard.
MainLock ==
    /\ main_pc = "lock"
    /\ mutex = "free"
    /\ ~poisoned
    /\ mutex' = "main"
    /\ main_pc' = "finalize"
    /\ UNCHANGED << cfgVars, sample_idx, stream, poisoned, sinkVars, cb_pc,
                    data, frame, delay, decoded_len, callbacks, cb_outcome,
                    cb_ret, histVars >>
    /\ UNCHANGED ghostVars
    /\ UNCHANGED sineVars

\* writer.lock() on a poisoned mutex is Err(PoisonError): unwrap() panics.
MainLockPoisoned ==
    /\ main_pc = "lock"
    /\ mutex = "free"
    /\ poisoned
    /\ main_pc' = "panicked"
    /\ UNCHANGED << cfgVars, sample_idx, stream, mutex, poisoned, sinkVars,
                    cb_pc, data, frame, delay, decoded_len, callbacks,
                    cb_outcome, cb_ret, histVars >>
    /\ UNCHANGED ghostVars
    /\ UNCHANGED sineVars

\* .take().unwrap().finalize(): the writer leaves the Option and is
\* finalized; the temporary guard is dropped at the end of the statement.
MainFinalize ==
    /\ main_pc = "finalize"
    /\ HasWriter(slot)
    /\ slot' = "None"
    /\ sink_finalized' = TRUE
    /\ mutex' = "free"
    /\ main_pc' = "done"
    /\ UNCHANGED << cfgVars, sample_idx, stream, poisoned, sink_samples,
                    cb_pc, data, frame, delay, decoded_len, callbacks,
                    cb_outcome, cb_ret, histVars >>
    /\ UNCHANGED ghostVars
    /\ UNCHANGED sineVars

\* ------------------------------------- microphone-test.rs (second binary)
\* Its main thread is the same as above (sleep, drop(stream), lock, take,
\* finalize); its callback writes the captured buffer straight to the sink.
\* Captured buffers have any length from 1 to 2 * MaxBufPairs.
MicBufLens == 1..(2 * MaxBufPairs)

MicInit ==
    /\ bin = "microphone-test"
    /\ loss = 0
    /\ latency_us = 0
    /\ jitter_us = 0
    /\ srcLen = 0
    /\ sample_idx = 0
    /\ stream = "playing"
    /\ mutex = "free"
    /\ poisoned = FALSE
    /\ slot = "Some"
    /\ sink_finalized = FALSE
    /\ sink_samples = 0
    /\ cb_pc = "idle"
    /\ main_pc = "sleep"
    /\ data = << >>
    /\ frame = << >>
    /\ delay = 0
    /\ decoded_len = 0
    /\ callbacks = 0
    /\ cb_outcome = "none"
    /\ cb_ret = "none"
    /\ pkts = << >>
    /\ frames = << >>
    /\ fed = << >>
    /\ codec_failures = 0
    /\ rendered = << >>
    /\ acquired = 0
    /\ events = << >>
    /\ frequency = 0
    /\ kb_pc = "none"
    /\ kb_current = 0
    /\ current_freq = 0
    /\ sample_clock = 0
    /\ stored = {}
    /\ expected = 0

\* The input stream hands a captured buffer to write_input_data.
MicCapture(n) ==
    /\ bin = "microphone-test"
    /\ cb_pc = "idle"
    /\ stream = "playing"
    /\ callbacks < MaxCallbacks
    /\ data' = [ i \in 1..n |-> 1 ]
    /\ callbacks' = callbacks + 1
    /\ cb_pc' = "try_lock"
    /\ cb_outcome' = "none"
    /\ cb_ret' = "none"
    /\ UNCHANGED << cfgVars, mainVars, mutex, poisoned, sinkVars, sample_idx,
                    frame, delay, decoded_len, histVars, ghostVars >>
    /\ UNCHANGED sineVars

\* try_lock is Ok and the writer is present.
MicTryLockSome ==
    /\ bin = "microphone-test"
    /\ cb_pc = "try_lock"
    /\ TryLockOk(mutex, poisoned)
    /\ HasWriter(slot)
    /\ mutex' = "cb"
    /\ cb_pc' = "mic_write"
    /\ acquired' = acquired + 1
    /\ UNCHANGED << cfgVars, mainVars, poisoned, sinkVars, sample_idx, data,
                    frame, delay, decoded_len, callbacks, cb_outcome, cb_ret,
                    histVars, rendered, events >>
    /\ UNCHANGED sineVars

\* Every input sample is written to the left and to the right channel; then
\* the guard goes out of scope.  fed records the samples written.
MicWrite ==
    /\ cb_pc = "mic_write"
    /\ sink_samples' = sink_samples + 2 * Len(data)
    /\ fed' = fed \o data
    /\ mutex' = "free"
    /\ cb_pc' = "idle"
    /\ cb_outcome' = "written"
    /\ cb_ret' = "unit"
    /\ DropLocals
    /\ UNCHANGED << cfgVars, mainVars, poisoned, slot, sink_finalized,
                    sample_idx, callbacks, pkts, frames, codec_failures,
                    ghostVars >>
    /\ UNCHANGED sineVars

\* ------------------------------------------------------------------- Next
Next ==
    \/ \E n \in BufLens : CbRender(n)
    \/ CbTryLockFail
    \/ CbTryLockNone
    \/ CbTryLockSome
    \/ CbFrame
    \/ CbEncodeOk
    \/ CbEncodeFail
    \/ \E draw \in 0..(RandScale - 1) : CbNetDrop(draw)
    \/ \E draw \in 0..(RandScale - 1) : CbNetJitterPanic(draw)
    \/ \E draw \in 0..(RandScale - 1), r \in 0..MaxRand : CbNetSleep(draw, r)
    \/ CbNetWake
    \/ \E n \in DecodedLens : CbDecodeOk(n)
    \/ CbDecodeFail
    \/ CbWrite
    \/ MainDropStream
    \/ MainLock
    \/ MainLockPoisoned
    \/ MainFinalize

Spec == Init /\ [][Next]_vars

\* Both binaries: main.rs and bin/microphone-test.rs.
InitBoth == Init \/ MicInit

NextBoth ==
    \/ Next
    \/ \E n \in MicBufLens : MicCapture(n)
    \/ MicTryLockSome
    \/ MicWrite

SpecBoth == InitBoth /\ [][NextBoth]_vars

\* The steps of the main thread and of the audio callback thread.  Both are
\* operating-system threads: each keeps running while it has a step to take
\* (the sleeps are finite, lock() returns once the mutex is free).
MainNext == MainDropStream \/ MainLock \/ MainLockPoisoned \/ MainFinalize

CbNext ==
    \/ \E n \in BufLens : CbRender(n)
    \/ CbTryLockFail
    \/ CbTryLockNone
    \/ CbTryLockSome
    \/ CbFrame
    \/ CbEncodeOk
    \/ CbEncodeFail
    \/ \E draw \in 0..(RandScale - 1) : CbNetDrop(draw)
    \/ \E draw \in 0..(RandScale - 1) : CbNetJitterPanic(draw)
    \/ \E draw \in 0..(RandScale - 1), r \in 0..MaxRand : CbNetSleep(draw, r)
    \/ CbNetWake
    \/ \E n \in DecodedLens : CbDecodeOk(n)
    \/ CbDecodeFail
    \/ CbWrite

FairSpec == Init /\ [][Next]_vars /\ WF_vars(MainNext) /\ WF_vars(CbNext)

\* ------------------------------------------ stream-test.rs (third binary)
\* A keyboard thread and the audio output callback share an
\* Arc<AtomicU32> holding the bits of the f32 oscillator frequency.  The
\* frequencies the program reaches are whole numbers of Hz below 2^24, which
\* f32 represents exactly; they are modelled as naturals.
InitFreq == 440
FreqStep == 10
MinFreq == 20

RECURSIVE Exp2(_)
Exp2(k) == IF k = 0 THEN 1 ELSE 2 * Exp2(k - 1)

RECURSIVE Log2(_)
Log2(v) == IF v < 2 THEN 0 ELSE 1 + Log2(v \div 2)

\* f32::to_bits of a positive whole number below 2^24: sign 0, biased
\* exponent in bits 30..23, fraction in bits 22..0.
ToBits(v) ==
    LET e == Log2(v)
    IN  (e + 127) * Exp2(23) + (v - Exp2(e)) * Exp2(23 - e)

\* f32::from_bits of such a pattern.
FromBits(b) ==
    LET e == (b \div Exp2(23)) - 127
        m == b % Exp2(23)
    IN  Exp2(e) + (m \div Exp2(23 - e))

\* 'w': current + 10.0
Raise(current) == current + FreqStep

\* 's' without the floor.
Lower_NoFloor(current) == current - FreqStep

\* 's': (current - 10.0).max(20.0)
Lower(current) ==
    IF current < MinFreq + FreqStep THEN MinFreq ELSE current - FreqStep

StreamInit ==
    /\ bin = "stream-test"
    /\ loss = 0
    /\ latency_us = 0
    /\ jitter_us = 0
    /\ srcLen = 0
    /\ sample_idx = 0
    /\ stream = "playing"
    /\ mutex = "free"
    /\ poisoned = FALSE
    /\ slot = "None"
    /\ sink_finalized = FALSE
    /\ sink_samples = 0
    /\ cb_pc = "idle"
    /\ main_pc = "sleep"
    /\ data = << >>
    /\ frame = << >>
    /\ delay = 0
    /\ decoded_len = 0
    /\ callbacks = 0
    /\ cb_outcome = "none"
    /\ cb_ret = "none"
    /\ pkts = << >>
    /\ frames = << >>
    /\ fed = << >>
    /\ codec_failures = 0
    /\ rendered = << >>
    /\ acquired = 0
    /\ events = << >>
    /\ frequency = ToBits(InitFreq)
    /\ kb_pc = "read_char"
    /\ kb_current = 0
    /\ current_freq = 0
    /\ sample_clock = 0
    /\ stored = { ToBits(InitFreq) }
    /\ expected = InitFreq

\* Everything the stream-test binary never touches.
pipelineVars ==
    << cfgVars, sample_idx, mutex, poisoned, sinkVars, data, frame, delay,
       decoded_len, callbacks, cb_outcome, cb_ret, histVars, ghostVars >>

\* read_char gives 'w'; the handler loads the frequency.
KbLoadW ==
    /\ bin = "stream-test"
    /\ main_pc = "sleep"
    /\ kb_pc = "read_char"
    /\ Raise(FromBits(frequency)) <= MaxFreq
    /\ kb_current' = FromBits(frequency)
    /\ kb_pc' = "w_store"
    /\ expected' = Raise(expected)
    /\ UNCHANGED << pipelineVars, mainVars, cb_pc, frequency, current_freq,
                    sample_clock, stored >>

\* ... and stores current + 10.0.
KbStoreW ==
    /\ main_pc = "sleep"
    /\ kb_pc = "w_store"
    /\ frequency' = ToBits(Raise(kb_current))
    /\ stored' = stored \cup { ToBits(Raise(kb_current)) }
    /\ kb_current' = 0
    /\ kb_pc' = "read_char"
    /\ UNCHANGED << pipelineVars, mainVars, cb_pc, current_freq, sample_clock,
                    expected >>

\* read_char gives 's'; the handler loads the frequency.
KbLoadS ==
    /\ bin = "stream-test"
    /\ main_pc = "sleep"
    /\ kb_pc = "read_char"
    /\ kb_current' = FromBits(frequency)
    /\ kb_pc' = "s_store"
    /\ expected' = Lower(expected)
    /\ UNCHANGED << pipelineVars, mainVars, cb_pc, frequency, current_freq,
                    sample_clock, stored >>

\* ... and stores (current - 10.0).max(20.0).
KbStoreS ==
    /\ main_pc = "sleep"
    /\ kb_pc = "s_store"
    /\ frequency' = ToBits(Lower(kb_current))
    /\ stored' = stored \cup { ToBits(Lower(kb_current)) }
    /\ kb_current' = 0
    /\ kb_pc' = "read_char"
    /\ UNCHANGED << pipelineVars, mainVars, cb_pc, current_freq, sample_clock,
                    expected >>

\* read_char gives 'q': the loop breaks and the keyboard thread ends.  (Any
\* other character only prints and changes nothing.)
KbQuit ==
    /\ bin = "stream-test"
    /\ main_pc = "sleep"
    /\ kb_pc = "read_char"
    /\ kb_pc' = "quit"
    /\ UNCHANGED << pipelineVars, mainVars, cb_pc, frequency, kb_current,
                    current_freq, sample_clock, stored, expected >>

\* Output buffers: a single sample, or MaxBufPairs stereo pairs.
SineBufLens == {1, 2 * MaxBufPairs}

\* The output stream calls write_sine, which loads the frequency once.
SineLoad ==
    /\ bin = "stream-test"
    /\ main_pc = "sleep"
    /\ cb_pc = "idle"
    /\ stream = "playing"
    /\ current_freq' = FromBits(frequency)
    /\ cb_pc' = "sine_fill"
    /\ UNCHANGED << pipelineVars, mainVars, frequency, kb_pc, kb_current,
                    sample_clock, stored, expected >>

\* The loop fills the n samples of the buffer from current_freq, advancing
\* SAMPLE_CLOCK by one modulo sample_rate for each, and write_sine returns.
SineFill(n) ==
    /\ main_pc = "sleep"
    /\ cb_pc = "sine_fill"
    /\ sample_clock' = (sample_clock + n) % SAMPLE_RATE
    /\ current_freq' = 0
    /\ cb_pc' = "idle"
    /\ UNCHANGED << pipelineVars, mainVars, frequency, kb_pc, kb_current,
                    stored, expected >>

\* The five-second sleep ends and main returns: the stream is dropped and
\* the process exits.  Nothing joins the keyboard thread, so it and any
\* callback in flight end wherever they are, and the atomic, the locals and
\* SAMPLE_CLOCK cease to exist.
StreamMainExit ==
    /\ bin = "stream-test"
    /\ main_pc = "sleep"
    /\ main_pc' = "done"
    /\ stream' = "dropped"
    /\ cb_pc' = "idle"
    /\ kb_pc' = "none"
    /\ frequency' = 0
    /\ kb_current' = 0
    /\ current_freq' = 0
    /\ sample_clock' = 0
    /\ stored' = {}
    /\ expected' = 0
    /\ UNCHANGED pipelineVars

NextStream ==
    \/ KbLoadW
    \/ KbStoreW
    \/ KbLoadS
    \/ KbStoreS
    \/ KbQuit
    \/ SineLoad
    \/ \E n \in SineBufLens : SineFill(n)
    \/ StreamMainExit

SpecStream == StreamInit /\ [][NextStream]_vars

\* -------------------------------------------------------- type invariant
TypeOK ==
    /\ loss \in 0..RandScale
    /\ stream \in {"playing", "dropped"}
    /\ mutex \in {"free", "cb", "main"}
    /\ slot \in {"Some", "None"}
    /\ bin \in {"main", "microphone-test", "stream-test"}
    /\ kb_pc \in {"none", "read_char", "w_store", "s_store", "quit"}
    /\ sample_clock \in 0..(SAMPLE_RATE - 1)
    /\ cb_pc \in {"idle", "try_lock", "frame", "encode", "network",
                  "sleeping", "decode", "write", "panicked", "mic_write",
                  "sine_fill"}
    /\ main_pc \in {"sleep", "lock", "finalize", "done", "panicked"}
    /\ sample_idx <= srcLen
    /\ Len(frame) \in {0, FRAME_SIZE}

\* ============================================================== claims
Quiescent == cb_pc \in {"idle", "panicked"}
CbInCS ==
    cb_pc \in {"frame", "encode", "network", "sleeping", "decode", "write",
               "mic_write"}
MainInCS == main_pc = "finalize"
Ceil(a, b) == (a + b - 1) \div b
\* Number of positions of the emitted frames that hold sample v.
Occurrences(v) ==
    Cardinality({ ij \in (1..Len(frames)) \X (1..FRAME_SIZE) :
                    frames[ij[1]][ij[2]] = v })

\* C1: a dropped packet is never decoded nor written, and every delivered
\* packet is decoded exactly once and written exactly once (as soon as the
\* callback that carried it is over).
C1_DroppedNeverDeliveredOnce ==
    \A i \in 1..Len(pkts) :
        /\ pkts[i].fate = "dropped" => pkts[i].decodes = 0 /\ pkts[i].writes = 0
        /\ pkts[i].decodes <= 1
        /\ pkts[i].writes <= 1
        /\ (pkts[i].fate = "delivered" /\ (i < Len(pkts) \/ Quiescent))
              => pkts[i].decodes = 1 /\ pkts[i].writes = 1

\* C2: the callback thread never sleeps to simulate the network delay.
C2_CallbackNeverSleeps == cb_pc # "sleeping"

\* C3: with loss probability 1 no packet is decoded and the sink receives
\* no sample from the diagnostic path.
C3_TotalLossNothingDecoded ==
    loss = RandScale =>
        /\ \A i \in 1..Len(pkts) : pkts[i].decodes = 0 /\ pkts[i].writes = 0
        /\ sink_samples = 0
        /\ cb_pc \notin {"sleeping", "decode", "write"}

C3_Witness ==
    /\ loss = RandScale
    /\ Len(pkts) = MaxCallbacks
    /\ \A i \in 1..Len(pkts) : pkts[i].fate = "dropped"
    /\ cb_pc = "idle"

\* C4: with loss probability 0, once the callback thread is at rest every
\* encoded packet has been delivered and decoded exactly once.
C4_LosslessAllDecodedOnce ==
    (loss = 0 /\ Quiescent) =>
        \A i \in 1..Len(pkts) :
            pkts[i].fate = "delivered" /\ pkts[i].decodes = 1

\* C5: once the stream is over, N samples per channel fed to the framing
\* code have produced ceil(N / frame_size) frames.
C5_FrameCountIsCeil ==
    (stream = "dropped" /\ cb_pc = "idle") =>
        Len(frames) = Ceil(Len(fed) \div 2, FRAME_SIZE)

\* C6: once the stream is over, every (non-silent, hence identifiable)
\* sample fed to the framing code appears in exactly one emitted frame.
C6_NoSampleLost ==
    (stream = "dropped" /\ cb_pc = "idle") =>
        \A k \in 1..Len(fed) : fed[k] # 0 => Occurrences(fed[k]) = 1

\* C7: the callback and the main thread are never both inside the sink
\* critical section, and a callback that finds the lock held returns at
\* once: it ends as skipped, writes nothing, encodes nothing, leaves the
\* lock alone and the callback thread is ready for the next buffer.
C7_SinkExclusiveNonBlocking ==
    /\ [](~(CbInCS /\ MainInCS))
    /\ [][ (cb_pc = "try_lock" /\ mutex # "free" /\ cb_pc' # cb_pc) =>
              /\ cb_pc' = "idle"
              /\ cb_outcome' = "skipped_locked"
              /\ sink_samples' = sink_samples
              /\ pkts' = pkts
              /\ frames' = frames
              /\ mutex' = mutex ]_vars

C7_Witness ==
    /\ cb_outcome = "skipped_locked"
    /\ cb_pc = "idle"
    /\ main_pc = "finalize"

\* C8: finalizing never crashes the caller, and once the (first) finalize
\* attempt of the main thread is over, the sink is closed and the shared
\* slot is empty.
C8_FinalizeClosesWithoutCrash ==
    /\ main_pc # "panicked"
    /\ main_pc = "done" => sink_finalized /\ slot = "None"

C10_CodecFailureRecoverable ==
    codec_failures > 0 => cb_pc # "panicked" /\ main_pc # "panicked"

\* C11: shutdown is ordered: the sink is finalized only after the stream
\* has been dropped, and once the stream has been dropped no packet is
\* decoded and no sample is written any more.
C11_NoDecodeAfterShutdown ==
    /\ [](sink_finalized => stream = "dropped")
    /\ [][ stream = "dropped" =>
              /\ sink_samples' = sink_samples
              /\ \A i \in 1..Len(pkts) : pkts'[i].decodes = pkts[i].decodes
          ]_vars

\* C12: the callback thread never sleeps while it holds the sink lock.
C12_NoLockHeldAcrossSleep == ~(cb_pc = "sleeping" /\ mutex = "cb")

\* C13: the render flow reads the source sequentially across callbacks: the
\* k-th sample output overall is source sample k while k is within the
\* source and silence afterwards; the read index is the number of source
\* samples output so far, never decreases and never exceeds the source.
C13_RenderSequential ==
    /\ [](/\ \A k \in 1..Len(rendered) :
                rendered[k] = IF k <= srcLen THEN samples(k) ELSE 0
          /\ sample_idx = Min(Len(rendered), srcLen)
          /\ sample_idx <= srcLen)
    /\ [][sample_idx' >= sample_idx]_vars

C13_Witness ==
    /\ callbacks = 2
    /\ srcLen > 0
    /\ Len(rendered) > srcLen
    /\ sample_idx = srcLen
    /\ rendered[1] # 0
    /\ rendered[Len(rendered)] = 0

\* C14: the render flow is independent of the codec path: from the end of
\* the render step to the return of the callback the device buffer holds
\* the next source samples (silence once the source is exhausted), whatever
\* the state of the sink lock, the fate of the packet and the result of the
\* codec, and nothing after the render step moves the read index.
C14_RenderIndependentOfCodecPath ==
    /\ [](cb_pc \notin {"idle", "panicked"} =>
            /\ Len(data) \in BufLens
            /\ data = [ i \in 1..Len(data) |->
                          LET k == Len(rendered) - Len(data) + i
                          IN  IF k <= srcLen THEN samples(k) ELSE 0 ])
    /\ [][cb_pc # "idle" =>
              sample_idx' = sample_idx /\ rendered' = rendered]_vars

C14_Witness ==
    /\ callbacks = 2
    /\ pkts # << >>
    /\ pkts[1].fate = "dropped"
    /\ cb_pc = "try_lock"
    /\ mutex = "main"
    /\ data # << >>
    /\ data[1] # 0

\* C15: for every configuration (jitter_us = 0 included) the delay of a
\* packet that is not dropped is computed without failure and lies between
\* latency_us and latency_us + jitter_us.
C15_DelayWithinBounds ==
    /\ \A i \in 1..Len(pkts) : pkts[i].fate # "delay_failed"
    /\ cb_pc = "sleeping" =>
          latency_us <= delay /\ delay <= latency_us + jitter_us

\* C16: every frame handed to the encoder is frame_size x channel_count
\* samples long, and every decoded frame written has that same length.
C16_FrameLengthFixed ==
    /\ \A i \in 1..Len(frames) : Len(frames[i]) = FRAME_SIZE * CHANNELS
    /\ cb_pc = "write" => decoded_len * CHANNELS = FRAME_SIZE * CHANNELS

IsDeliver(e) == e.op = "deliver"
IsDecode(e) == e.op = "decode"
IsWrite(e) == e.op = "write"
IsPrefix(s, t) == Len(s) <= Len(t) /\ \A i \in 1..Len(s) : s[i].pkt = t[i].pkt

\* C17: packets are encoded in the order in which their samples arrived
\* (every sample of an earlier frame precedes every sample of a later
\* frame in the source), and packets are decoded and written to the sink
\* in the order in which they are delivered.
C17_EncodeAndWriteOrder ==
    /\ \A i \in 1..Len(frames), j \in 1..Len(frames) :
          i < j => \A a \in 1..FRAME_SIZE, b \in 1..FRAME_SIZE :
                      (frames[i][a] # 0 /\ frames[j][b] # 0)
                          => frames[i][a] < frames[j][b]
    /\ IsPrefix(SelectSeq(events, IsDecode), SelectSeq(events, IsDeliver))
    /\ IsPrefix(SelectSeq(events, IsWrite), SelectSeq(events, IsDecode))

C17_Witness ==
    /\ Len(SelectSeq(events, IsWrite)) = 2
    /\ Len(frames) = 2
    /\ frames[1][1] # 0
    /\ frames[2][1] # 0

\* C18: in a run without loss (and with jitter) that has played the whole
\* input and in which every callback got through to the sink, the number
\* of samples in the output file at finalization is the input's sample
\* count rounded up to whole codec frames, and no packet was dropped
\* (every packet being decoded to the full capacity of the decode buffer).
C18_OutputCountIsInputRoundedUp ==
    (loss = 0 /\ jitter_us > 0 /\ srcLen > 0 /\ sample_idx = srcLen
        /\ main_pc = "done" /\ cb_pc = "idle"
        /\ Len(SelectSeq(events, IsWrite)) = callbacks
        /\ \A i \in 1..Len(pkts) : pkts[i].dlen = FRAME_SIZE \div CHANNELS) =>
        /\ sink_samples
             = Ceil(srcLen \div CHANNELS, FRAME_SIZE) * FRAME_SIZE * CHANNELS
        /\ \A i \in 1..Len(pkts) : pkts[i].fate # "dropped"

\* C19: a callback encodes at most once and decodes at most once, a packet
\* is decoded only if it was delivered, and a callback that does not get
\* the guard of an open sink encodes, submits, decodes and writes nothing:
\* decodes <= packets <= encode calls <= guards taken on an open sink
\* <= callbacks.
C19_AtMostOneEncodeDecodePerCallback ==
    /\ [](/\ Len(SelectSeq(events, IsDecode)) <= Len(pkts)
          /\ Len(pkts) <= Len(frames)
          /\ Len(frames) <= acquired
          /\ acquired <= callbacks
          /\ \A i \in 1..Len(pkts) :
                /\ pkts[i].decodes <= 1
                /\ pkts[i].decodes = 1 => pkts[i].fate = "delivered")
    /\ [][ (cb_pc = "try_lock" /\ cb_pc' = "idle") =>
              /\ frames' = frames
              /\ pkts' = pkts
              /\ events' = events
              /\ sink_samples' = sink_samples
              /\ acquired' = acquired ]_vars

C19_Witness ==
    /\ callbacks = 2
    /\ acquired = 1
    /\ cb_pc = "idle"
    /\ cb_outcome \in {"skipped_locked", "skipped_closed"}
    /\ Len(SelectSeq(events, IsDecode)) = 1
    /\ Len(frames) = 1

RECURSIVE WrittenLen(_)
\* Sum of decoded_len over the packets of p that were written.
WrittenLen(p) ==
    IF p = << >> THEN 0
    ELSE (IF Head(p).writes = 1 THEN Head(p).dlen ELSE 0) + WrittenLen(Tail(p))

\* C20: the sink always holds whole 2-channel pairs: the number of samples
\* written is even, it is twice the decoded lengths of the packets written
\* (main.rs) or twice the lengths of the buffers written (microphone-test),
\* and it only changes inside the critical section of the callback.
C20_SinkHoldsWholePairs ==
    /\ [](/\ sink_samples % CHANNELS = 0
          /\ bin = "main" => sink_samples = 2 * WrittenLen(pkts)
          /\ bin = "microphone-test" => sink_samples = 2 * Len(fed))
    /\ [][ sink_samples' # sink_samples =>
              /\ cb_pc \in {"write", "mic_write"}
              /\ mutex = "cb"
              /\ mutex' = "free" ]_vars

C20_Witness ==
    /\ bin = "main"
    /\ Len(SelectSeq(events, IsWrite)) = 2
    /\ pkts[1].dlen = 1
    /\ pkts[2].dlen = 2
    /\ sink_samples = 6

\* C21: finalization in main always terminates with success: a callback that
\* took the sink lock has released it when it returns, and once the stream is
\* dropped main's lock() eventually succeeds, finds the writer present and
\* finalizes it, leaving the shared slot empty.
C21_FinalizationTerminates ==
    /\ [](Quiescent => mutex # "cb")
    /\ (stream = "dropped") ~>
           (main_pc = "done" /\ sink_finalized /\ slot = "None")

\* C22: the oscillator frequency is exchanged as one atomic value between
\* the keyboard thread and the audio callback.  Starting from 440 Hz, after
\* any sequence of 'w' (+10 Hz) and 's' (-10 Hz, floored at 20 Hz) presses
\* interleaved with callbacks: the stored frequency is never below 20 Hz; no
\* press's update is lost (between presses the stored frequency is what the
\* presses give when applied in order); and every value a callback reads was
\* stored by the initialisation or by a key press.
C22_FrequencyAtomicExchange ==
    (bin = "stream-test" /\ main_pc = "sleep") =>
        /\ frequency \in stored
        /\ FromBits(frequency) >= MinFreq
        /\ kb_pc \in {"read_char", "quit"} => FromBits(frequency) = expected
        /\ cb_pc = "sine_fill" => ToBits(current_freq) \in stored

\* A callback holds the floor value it read while an 's' press at the floor
\* is between its load and its store, after a 'w' press has also been stored.
C22_Witness ==
    /\ cb_pc = "sine_fill"
    /\ current_freq = MinFreq
    /\ kb_pc = "s_store"
    /\ kb_current = MinFreq
    /\ ToBits(InitFreq + FreqStep) \in stored

====
